---- MODULE Spec2Model ----
(***************************************************************************)
(* Model of transmission_simple_assessment.py: the Calculate handler, the  *)
(* sweep of compute_sums, the sweep of visualize_towers, and               *)
(* classify_magnitude.                                                     *)
(*                                                                         *)
(* Number representation.  The program computes in binary floating point;  *)
(* the model computes in integers:                                         *)
(*   - tower_height is in whole metres, tower_angle in whole degrees,      *)
(*     span in tenths of a metre (so that 0.5 and 300.5 are inputs);       *)
(*   - d is an exact fraction of table entries, r is in half metres;       *)
(*   - tangents are the table TanE5 (tan of 1..45 degrees times 100000),   *)
(*     the tangent of a larger angle being the reciprocal or the negation  *)
(*     of an entry;                                                        *)
(*   - an angle the program obtains from atan is kept as its place among   *)
(*     the whole degrees: 2n stands for exactly n degrees, 2n+1 for an     *)
(*     angle strictly between n and n+1 degrees.  Adding 95, negating,     *)
(*     clamping to [0,180] and flooring to a 10-degree cell are exact on   *)
(*     this representation.                                                *)
(***************************************************************************)
EXTENDS Integers, Sequences, FiniteSets, TLC

VARIABLES
    pc,                    \* position of the script / handler
    tower_height,          \* st.number_input "Tower Height (m)", metres
    span,                  \* st.number_input "Span Between Towers (m)", tenths of a metre
    tower_angle,           \* st.number_input "Tower Height Angle", degrees
    x,                     \* loop variable of the running sweep
    main_cells,            \* compute_sums: occupied cells of towers above 3 degrees
    side_cells,            \* compute_sums: occupied cells of the other visible towers
    sums,                  \* value returned by compute_sums: <<main_count, side_count>>
    f3,                    \* handler: main count
    f_sub3,                \* handler: side count
    classification,        \* handler: classify_magnitude(f3)
    triggers_intermediate, \* handler: f3 >= 16
    towers_data,           \* visualize_towers: list of <<phi, top_deg, color>>
    fig,                   \* value returned by visualize_towers
    visited,               \* history: offsets the body of compute_sums' loop ran for
    samples,               \* history: the samples compute_sums retained
    calls,                 \* history: number of Calculate invocations so far
    memo,                  \* history: (inputs, result) of the finished invocations
    value,                 \* classify_magnitude driver: the magnitude classified last
    labels                 \* classify_magnitude driver: label returned for 0..value

vars == <<pc, tower_height, span, tower_angle, x, main_cells, side_cells, sums,
          f3, f_sub3, classification, triggers_intermediate, towers_data, fig,
          visited, samples, calls, memo, value, labels>>

----------------------------------------------------------------------------
(* Input domains and bounds *)

Heights == {-50, 0, 5, 10, 50, 250}
Spans == {-1000, 0, 5, 400, 1000, 2400, 3005, 30000}
Angles == {0, 2, 5, 14, 45, 135, 180}

SessionHeights == {50, 250}
SessionSpans == {0, 20000, 30000}
SessionAngles == {0, 5}

MaxCalls == 3
MaxMagnitude == 120

----------------------------------------------------------------------------
(* Arithmetic *)

Abs(n) == IF n < 0 THEN -n ELSE n
Min(a, b) == IF a < b THEN a ELSE b
Max(a, b) == IF a > b THEN a ELSE b

\* int(span_between_towers_m): truncation toward zero of a value in tenths
IntOfTenths(s) == IF s >= 0 THEN s \div 10 ELSE -((-s) \div 10)

RECURSIVE SqrtBetween(_, _, _)
SqrtBetween(n, lo, hi) ==
    IF hi - lo <= 1 THEN lo
    ELSE LET mid == (lo + hi) \div 2
         IN  IF mid * mid <= n THEN SqrtBetween(n, mid, hi)
                               ELSE SqrtBetween(n, lo, mid)

\* math.hypot on half metres, rounded down
Hypot(a, b) == SqrtBetween(a * a + b * b, 0, 46341)

\* tan(j degrees) * 100000 for j = 1..45
TanE5 == << 1746, 3492, 5241, 6993, 8749, 10510, 12278, 14054, 15838, 17633,
            19438, 21256, 23087, 24933, 26795, 28675, 30573, 32492, 34433, 36397,
            38386, 40403, 42447, 44523, 46631, 48773, 50953, 53171, 55431, 57735,
            60086, 62487, 64941, 67451, 70021, 72654, 75355, 78129, 80978, 83910,
            86929, 90040, 93252, 96569, 100000 >>

\* math.tan(math.radians(a)) as the fraction TanNum(a) / TanDen(a); a is not
\* an odd multiple of 90
TanNum(a) ==
    LET m == a % 180
    IN  IF m = 0 THEN 0
        ELSE IF m <= 45 THEN TanE5[m]
        ELSE IF m < 90 THEN 100000
        ELSE IF m < 135 THEN -100000
        ELSE -TanE5[180 - m]

TanDen(a) ==
    LET m == a % 180
    IN  IF m <= 45 THEN 100000
        ELSE IF m < 90 THEN TanE5[90 - m]
        ELSE IF m < 135 THEN TanE5[m - 90]
        ELSE 100000

\* sign of a/b - c/d for a, c >= 0 and b, d > 0, without forming a product
RECURSIVE FracCmp(_, _, _, _)
FracCmp(a, b, c, d) ==
    LET qa == a \div b
        qc == c \div d
        ra == a % b
        rc == c % d
    IN  IF qa # qc THEN (IF qa > qc THEN 1 ELSE -1)
        ELSE IF ra = 0 /\ rc = 0 THEN 0
        ELSE IF ra = 0 THEN -1
        ELSE IF rc = 0 THEN 1
        ELSE FracCmp(d, rc, b, ra)

\* the largest j in lo..hi-1 with tan(j degrees) <= num / den (lo qualifies)
RECURSIVE FloorDeg(_, _, _, _)
FloorDeg(num, den, lo, hi) ==
    IF hi - lo <= 1 THEN lo
    ELSE LET mid == (lo + hi) \div 2
         IN  IF FracCmp(num, den, TanNum(mid), TanDen(mid)) >= 0
               THEN FloorDeg(num, den, mid, hi)
               ELSE FloorDeg(num, den, lo, mid)

\* math.degrees(math.atan(num / den)) for num >= 0, den > 0, as a place among
\* the whole degrees (2n: exactly n; 2n+1: between n and n+1)
AtanDeg(num, den) ==
    LET n == FloorDeg(num, den, 0, 90)
    IN  IF FracCmp(num, den, TanNum(n), TanDen(n)) = 0 THEN 2 * n ELSE 2 * n + 1

----------------------------------------------------------------------------
(* classify_magnitude *)

\* faulty variant: every comparison strict
classify_magnitude_strict(v) ==
    IF v < 7 THEN "Very low"
    ELSE IF v < 14 THEN "Low"
    ELSE IF v < 25 THEN "Moderate"
    ELSE IF v < 36 THEN "High"
    ELSE "Very high"

\* classify_magnitude(value)
classify_magnitude(v) ==
    IF v <= 7 THEN "Very low"
    ELSE IF v <= 14 THEN "Low"
    ELSE IF v <= 25 THEN "Moderate"
    ELSE IF v <= 36 THEN "High"
    ELSE "Very high"

----------------------------------------------------------------------------
(* compute_sums *)

\* faulty variant: the degenerate test never fires
TanNeverTiny(a) == FALSE

\* abs(math.tan(angle_radians)) < 1e-12: of the whole degrees, the multiples of 180
TanIsTiny(a) == Abs(TanNum(a)) < 1

\* d = tower_height_m / math.tan(angle_radians), as the fraction d[1] / d[2]
\* with d[2] > 0
Baseline(h, a) ==
    IF TanNum(a) < 0 THEN <<-(h * TanDen(a)), -TanNum(a)>>
                     ELSE <<h * TanDen(a), TanNum(a)>>

\* r = math.hypot(d, x), in half metres, rounded down
SlantRange(d, xx) == Hypot((2 * Abs(d[1])) \div d[2], 2 * xx)

\* raw_angle < 0.1, raw_angle being degrees(atan(h / r)): r > h / tan(0.1 degrees)
RawBelowFloor(h, r) == 2 * h * 572957 < r * 1000

\* raw_angle = math.degrees(math.atan(tower_height_m / r)), r > 0
RawAngle(h, r) ==
    IF h >= 0 THEN AtanDeg(2 * h, r) ELSE -AtanDeg(-2 * h, r)

\* phi_calc = math.degrees(math.atan(abs(x)/d)), d # 0
PhiCalc(xx, d) ==
    IF d[1] > 0 THEN AtanDeg(Abs(xx) * d[2], d[1])
                ELSE -AtanDeg(Abs(xx) * d[2], -d[1])

\* faulty variant: phi_calc added on both sides of the centre
PhiUnclampedOneSided(xx, d) == 190 + PhiCalc(xx, d)

\* phi = 95 + phi_calc if x > 0 else 95 - phi_calc
PhiUnclamped(xx, d) ==
    IF xx > 0 THEN 190 + PhiCalc(xx, d) ELSE 190 - PhiCalc(xx, d)

\* phi: 95.0 at x == 0, else the angle above clamped to [0, 180]
Phi(xx, d) ==
    IF xx = 0 THEN 190 ELSE Max(0, Min(360, PhiUnclamped(xx, d)))

\* faulty variant: 5-degree cells
CellOfFive(phi) == phi \div 10

\* cell = int(phi // 10)
Cell(phi) == phi \div 20

\* raw_angle > 3.0
IsMain(raw) == raw > 6

\* faulty variant: range(-4000, 4000, step)
SweepContinuesExclusive(xx, step) ==
    IF step > 0 THEN xx < 4000 ELSE xx > 4000

\* x is an element of range(-4000, 4001, step), step # 0
SweepContinues(xx, step) ==
    IF step > 0 THEN xx < 4001 ELSE xx > 4001

\* faulty variant: the sets outlive the call
KeptCells(old) == old

\* main_cells = set() / side_cells = set()
FreshCells(old) == {}

\* faulty variant: f3 > 16
TriggersAbove(f) == f > 16

\* triggers_intermediate = (f3 >= 16)
Triggers(f) == f >= 16

----------------------------------------------------------------------------
(* visualize_towers *)

\* faulty variant: threshold 2.0
VisColorTwoDegrees(raw) == IF raw > 4 THEN "red" ELSE "blue"

\* color = 'red' if raw_angle > 3.0 else 'blue'
VisColor(raw) == IF raw > 6 THEN "red" ELSE "blue"

\* top_deg = min(raw_angle, 40.0)
VisTopDeg(raw) == Min(raw, 80)

\* phi as computed in visualize_towers
VisPhi(xx, d) ==
    IF xx = 0 THEN 190
    ELSE Max(0, Min(360, IF xx > 0 THEN 190 + PhiCalc(xx, d)
                                   ELSE 190 - PhiCalc(xx, d)))

----------------------------------------------------------------------------
(* The script: one run per press of Calculate *)

\* no value bound yet to the result of compute_sums
NoSums == <<-1, -1>>

\* the script starts afresh with the inputs h, s, a and runs compute_sums up to
\* its loop header: the degenerate return (line 42), d (line 44, dividing by a
\* zero tangent raises), the fresh sets and range(), which raises on step 0
Enter(h, s, a) ==
    /\ tower_height' = h
    /\ span' = s
    /\ tower_angle' = a
    /\ main_cells' = FreshCells(main_cells)
    /\ side_cells' = FreshCells(side_cells)
    /\ f3' = -1
    /\ f_sub3' = -1
    /\ classification' = "none"
    /\ triggers_intermediate' = FALSE
    /\ towers_data' = <<>>
    /\ fig' = "unset"
    /\ visited' = <<>>
    /\ samples' = {}
    /\ x' = -4000
    /\ IF TanIsTiny(a)
         THEN pc' = "returned" /\ sums' = <<0, 0>>
         ELSE /\ sums' = NoSums
              /\ IF TanNum(a) = 0 \/ IntOfTenths(s) = 0
                   THEN pc' = "error"
                   ELSE pc' = "sums_loop"

\* st.button("Calculate") pressed: the inputs are read and compute_sums is
\* entered (lines 40-48)
Calculate ==
    /\ pc \in {"idle", "done", "error"}
    /\ \E h \in Heights, s \in Spans, a \in Angles : Enter(h, s, a)
    /\ UNCHANGED <<calls, memo, value, labels>>

\* one iteration of compute_sums' loop (lines 48-69)
SumsStep ==
    /\ pc = "sums_loop"
    /\ SweepContinues(x, IntOfTenths(span))
    /\ LET d == Baseline(tower_height, tower_angle)
           r == SlantRange(d, x)
           raw == RawAngle(tower_height, r)
           phi == Phi(x, d)
           cell == Cell(phi)
       IN  /\ visited' = Append(visited, x)
           /\ IF r <= 0 \/ RawBelowFloor(tower_height, r)
                THEN UNCHANGED <<main_cells, side_cells, samples>>
                ELSE /\ samples' = samples \cup
                            {[offset |-> x, slantRange |-> r, verticalAngle |-> raw,
                              unclamped |-> IF x = 0 THEN 190 ELSE PhiUnclamped(x, d),
                              horizontalAngle |-> phi,
                              category |-> IF IsMain(raw) THEN "main" ELSE "side"]}
                     /\ IF IsMain(raw)
                          THEN /\ main_cells' = main_cells \cup {cell}
                               /\ UNCHANGED side_cells
                          ELSE /\ side_cells' = side_cells \cup {cell}
                               /\ UNCHANGED main_cells
    /\ x' = x + IntOfTenths(span)
    /\ UNCHANGED <<pc, tower_height, span, tower_angle, sums, f3, f_sub3,
                   classification, triggers_intermediate, towers_data, fig,
                   calls, memo, value, labels>>

\* the loop is exhausted: compute_sums returns the two counts (lines 72-74)
SumsReturn ==
    /\ pc = "sums_loop"
    /\ ~SweepContinues(x, IntOfTenths(span))
    /\ sums' = <<Cardinality(main_cells), Cardinality(side_cells)>>
    /\ pc' = "returned"
    /\ UNCHANGED <<tower_height, span, tower_angle, x, main_cells, side_cells,
                   f3, f_sub3, classification, triggers_intermediate, towers_data,
                   fig, visited, samples, calls, memo, value, labels>>

\* the handler unpacks the result, classifies it and writes the results
\* (lines 169-187)
Results ==
    /\ pc = "returned"
    /\ f3' = sums[1]
    /\ f_sub3' = sums[2]
    /\ classification' = classify_magnitude(sums[1])
    /\ triggers_intermediate' = Triggers(sums[1])
    /\ pc' = "results"
    /\ UNCHANGED <<tower_height, span, tower_angle, x, main_cells, side_cells,
                   sums, towers_data, fig, visited, samples, calls, memo, value,
                   labels>>

\* the handler calls visualize_towers, which is entered (lines 189, 81-88)
Visualize ==
    /\ pc = "results"
    /\ towers_data' = <<>>
    /\ x' = -4000
    /\ IF TanIsTiny(tower_angle)
         THEN pc' = "done" /\ fig' = "None"
         ELSE /\ fig' = fig
              /\ IF TanNum(tower_angle) = 0 \/ IntOfTenths(span) = 0
                   THEN pc' = "error"
                   ELSE pc' = "vis_loop"
    /\ UNCHANGED <<tower_height, span, tower_angle, main_cells, side_cells, sums,
                   f3, f_sub3, classification, triggers_intermediate, visited,
                   samples, calls, memo, value, labels>>

\* one iteration of visualize_towers' loop (lines 88-103)
VisStep ==
    /\ pc = "vis_loop"
    /\ SweepContinues(x, IntOfTenths(span))
    /\ LET d == Baseline(tower_height, tower_angle)
           r == SlantRange(d, x)
           raw == RawAngle(tower_height, r)
       IN  IF r <= 0 \/ RawBelowFloor(tower_height, r)
             THEN UNCHANGED towers_data
             ELSE towers_data' =
                      Append(towers_data, <<VisPhi(x, d), VisTopDeg(raw), VisColor(raw)>>)
    /\ x' = x + IntOfTenths(span)
    /\ UNCHANGED <<pc, tower_height, span, tower_angle, main_cells, side_cells,
                   sums, f3, f_sub3, classification, triggers_intermediate, fig,
                   visited, samples, calls, memo, value, labels>>

\* the loop is exhausted: the figure is drawn and returned, and the handler
\* shows it (lines 105-158, 190-191)
VisReturn ==
    /\ pc = "vis_loop"
    /\ ~SweepContinues(x, IntOfTenths(span))
    /\ fig' = "fig"
    /\ pc' = "done"
    /\ UNCHANGED <<tower_height, span, tower_angle, x, main_cells, side_cells,
                   sums, f3, f_sub3, classification, triggers_intermediate,
                   towers_data, visited, samples, calls, memo, value, labels>>

Init ==
    /\ pc = "idle"
    /\ tower_height = 50
    /\ span = 1000
    /\ tower_angle = 5
    /\ x = -4000
    /\ main_cells = {}
    /\ side_cells = {}
    /\ sums = NoSums
    /\ f3 = -1
    /\ f_sub3 = -1
    /\ classification = "none"
    /\ triggers_intermediate = FALSE
    /\ towers_data = <<>>
    /\ fig = "unset"
    /\ visited = <<>>
    /\ samples = {}
    /\ calls = 0
    /\ memo = {}
    /\ value = -1
    /\ labels = <<>>

\* every step of the script after the button press
ScriptStep ==
    \/ SumsStep
    \/ SumsReturn
    \/ Results
    \/ Visualize
    \/ VisStep
    \/ VisReturn

Next ==
    \/ Calculate
    \/ ScriptStep

Spec == Init /\ [][Next]_vars

----------------------------------------------------------------------------
(* A session of up to MaxCalls presses of Calculate, remembering what each  *)
(* finished run returned                                                    *)

SessionCalculate ==
    /\ pc \in {"idle", "done", "error"}
    /\ calls < MaxCalls
    /\ calls' = calls + 1
    /\ memo' = IF pc = "done"
                 THEN memo \cup {<<tower_height, span, tower_angle, sums>>}
                 ELSE memo
    /\ \E h \in SessionHeights, s \in SessionSpans, a \in SessionAngles : Enter(h, s, a)
    /\ UNCHANGED <<value, labels>>

SessionNext ==
    \/ SessionCalculate
    \/ ScriptStep

SessionSpec == Init /\ [][SessionNext]_vars

----------------------------------------------------------------------------
(* classify_magnitude applied to 0, 1, 2, ... MaxMagnitude in turn *)

ClassifyInit ==
    /\ pc = "classify"
    /\ tower_height = 50
    /\ span = 1000
    /\ tower_angle = 5
    /\ x = -4000
    /\ main_cells = {}
    /\ side_cells = {}
    /\ sums = NoSums
    /\ f3 = -1
    /\ f_sub3 = -1
    /\ classification = "none"
    /\ triggers_intermediate = FALSE
    /\ towers_data = <<>>
    /\ fig = "unset"
    /\ visited = <<>>
    /\ samples = {}
    /\ calls = 0
    /\ memo = {}
    /\ value = -1
    /\ labels = <<>>

ClassifyNext ==
    /\ pc = "classify"
    /\ value < MaxMagnitude
    /\ value' = value + 1
    /\ labels' = Append(labels, classify_magnitude(value + 1))
    /\ UNCHANGED <<pc, tower_height, span, tower_angle, x, main_cells, side_cells,
                   sums, f3, f_sub3, classification, triggers_intermediate,
                   towers_data, fig, visited, samples, calls, memo>>

ClassifySpec == ClassifyInit /\ [][ClassifyNext]_vars

----------------------------------------------------------------------------
(* Properties *)

\* compute_sums has returned in the current run
SumsKnown == pc \in {"returned", "results", "vis_loop", "done"}

\* the handler has classified the result of the current run
HandlerDone == pc \in {"results", "vis_loop", "done"}

\* C1: for towerHeight > 0 and span > 0, neither the main nor the side count of
\* occupied 10-degree cells returned by compute_sums exceeds 18.
C1_CountsAtMost18 ==
    (SumsKnown /\ tower_height > 0 /\ span > 0) => (sums[1] <= 18 /\ sums[2] <= 18)

Rank(label) ==
    CASE label = "Very low" -> 1
      [] label = "Low" -> 2
      [] label = "Moderate" -> 3
      [] label = "High" -> 4
      [] label = "Very high" -> 5
      [] OTHER -> 0

\* C2: classify_magnitude returns, for every magnitude m >= 0, the band of the
\* table (<= 7 Very low, 8..14 Low, 15..25 Moderate, 26..36 High, >= 37 Very
\* high), and the label never decreases as the magnitude increases.
C2_ClassifyTable ==
    /\ Len(labels) = value + 1
    /\ \A i \in 1..Len(labels) :
          LET m == i - 1
          IN  /\ (m <= 7) => labels[i] = "Very low"
              /\ (8 <= m /\ m <= 14) => labels[i] = "Low"
              /\ (15 <= m /\ m <= 25) => labels[i] = "Moderate"
              /\ (26 <= m /\ m <= 36) => labels[i] = "High"
              /\ (37 <= m) => labels[i] = "Very high"
    /\ \A i, j \in 1..Len(labels) : i <= j => Rank(labels[i]) <= Rank(labels[j])

C2_Witness ==
    /\ value >= 37
    /\ labels[value + 1] = "Very high"
    /\ labels[1] = "Very low"
    /\ labels[27] = "High"

\* C3: after Calculate, triggersIntermediateAssessment is true exactly when the
\* main count is >= 16: false at 15 (already "Moderate"), true at 16.
C3_TriggerIffAtLeast16 ==
    HandlerDone =>
        /\ f3 = sums[1]
        /\ triggers_intermediate <=> (f3 >= 16)
        /\ (f3 = 15) => (classification = "Moderate" /\ ~triggers_intermediate)
        /\ (f3 = 16) => triggers_intermediate

C3_Witness ==
    HandlerDone /\ f3 = 15 /\ classification = "Moderate" /\ ~triggers_intermediate

\* C4: when the tangent of the elevation angle vanishes (0 or 180 degrees),
\* compute_sums raises nothing, enumerates no sample and returns 0 for both
\* groups, so the classification is "Very low" and the trigger is false.
C4_DegenerateIsAllZero ==
    (pc # "idle" /\ tower_angle % 180 = 0) =>
        /\ pc # "error"
        /\ visited = <<>>
        /\ samples = {}
        /\ SumsKnown => sums = <<0, 0>>
        /\ HandlerDone => /\ f3 = 0
                          /\ f_sub3 = 0
                          /\ classification = "Very low"
                          /\ ~triggers_intermediate

C4_Witness ==
    /\ pc = "done"
    /\ tower_angle = 180
    /\ tower_height = 50
    /\ span = 1000
    /\ sums = <<0, 0>>
    /\ classification = "Very low"

\* C5: with towerHeight <= 0 or span <= 0, compute_sums fails with an input
\* validation error and never returns a result.
C5_InvalidInputRejected ==
    (pc # "idle" /\ (tower_height <= 0 \/ span <= 0)) => ~SumsKnown

\* C6: for towerHeight 50, span 100, elevationAngle 5 the retained samples are
\* symmetric about offset 0: the sample at -x is retained with the sample at +x,
\* with the same vertical angle and category, and their horizontal angles before
\* clamping are 95 + k and 95 - k for the same k >= 0.
C6_Symmetric ==
    (SumsKnown /\ tower_height = 50 /\ span = 1000 /\ tower_angle = 5) =>
        \A s \in samples :
            \E t \in samples :
                /\ t.offset = -s.offset
                /\ t.slantRange = s.slantRange
                /\ t.verticalAngle = s.verticalAngle
                /\ t.category = s.category
                /\ s.unclamped - 190 = 190 - t.unclamped
                /\ (s.offset > 0) => s.unclamped >= 190

C6_Witness ==
    /\ pc = "returned"
    /\ tower_height = 50 /\ span = 1000 /\ tower_angle = 5
    /\ Cardinality(samples) = 81
    /\ \E s, t \in samples :
          /\ s.offset = 500 /\ t.offset = -500
          /\ s.category = "main" /\ t.category = "main"
          /\ s.unclamped > 190 /\ t.unclamped < 190

\* C7: two runs of compute_sums with equal inputs return equal results, whatever
\* ran before them.
C7_SameInputsSameResult ==
    SumsKnown =>
        \A m \in memo :
            (m[1] = tower_height /\ m[2] = span /\ m[3] = tower_angle) => m[4] = sums

C7_Witness ==
    /\ pc = "done"
    /\ calls = 3
    /\ sums # <<0, 0>>
    /\ \E m \in memo : m[1] = tower_height /\ m[2] = span /\ m[3] = tower_angle
    /\ \E m \in memo : m[2] # span /\ m[4] # sums /\ m[4] # <<0, 0>>

\* the offsets of range(-4000, 4001, step) for step >= 1, in order
SweepOffsets(step) == [k \in 1..((8000 \div step) + 1) |-> -4000 + (k - 1) * step]

InSeq(e, q) == \E i \in 1..Len(q) : q[i] = e

C8_Safety ==
    (pc # "idle" /\ span > 0 /\ tower_angle % 180 # 0) =>
        IF span < 10
          THEN pc = "error" /\ visited = <<>>
          ELSE /\ pc # "error"
               /\ (pc = "sums_loop") =>
                     /\ x = -4000 + Len(visited) * (span \div 10)
                     /\ x <= 4000 + (span \div 10)
               /\ SumsKnown =>
                     /\ visited = SweepOffsets(span \div 10)
                     /\ InSeq(0, visited) <=> (4000 % (span \div 10) = 0)
                     /\ InSeq(4000, visited) <=> (8000 % (span \div 10) = 0)
                     /\ \A s \in samples : s.offset = 0 => s.horizontalAngle = 190

\* every step taken inside the sweep either ends it or moves x upward
C8_Progress ==
    (pc = "sums_loop" /\ span > 0) =>
        \/ pc' = "returned"
        \/ pc' = "sums_loop" /\ x' > x

C9_NeverHigh ==
    HandlerDone => classification \in {"Very low", "Low", "Moderate"}

C9_Witness ==
    HandlerDone /\ f3 = 19 /\ classification = "Moderate"

\* the cells floor(phi / 10) of the entries of towers_data drawn in a colour
DrawnCells(color) ==
    {towers_data[i][1] \div 20 : i \in {k \in 1..Len(towers_data) : towers_data[k][3] = color}}

\* C10: for the same inputs the cells of the towers visualize_towers draws red
\* are as many as the main count of compute_sums, those drawn blue as many as
\* the side count, and visualize_towers returns no figure exactly when
\* compute_sums took its degenerate branch.
C10_ChartMatchesSums ==
    (pc = "done") =>
        /\ Cardinality(DrawnCells("red")) = sums[1]
        /\ Cardinality(DrawnCells("blue")) = sums[2]
        /\ (fig = "None") <=> (tower_angle % 180 = 0)
        /\ (fig = "None") => sums = <<0, 0>>

C10_Witness ==
    /\ pc = "done"
    /\ fig = "fig"
    /\ sums[1] > 0
    /\ sums[2] > 0
    /\ Cardinality(DrawnCells("red")) = sums[1]
    /\ Len(towers_data) > sums[1] + sums[2]

====
